---- MODULE Spec2Model ----
(***************************************************************************)
(* Model of prefetch-predict (src/index.js): class PredictivePrefetcher.    *)
(*                                                                         *)
(* Strings are sequences of one-character strings, so that                  *)
(* String.prototype.includes is modelled by what it does (substring         *)
(* search).  Date.now() is the variable now, a clock counted in ticks; one  *)
(* tick is 20*ln(2) seconds and decayRate is counted in multiples of 0.05/s *)
(* (the default 0.1 is 2, the README's 0.05 is 1), so that                  *)
(* Math.exp(-decayRate * timeElapsed) = 2^-(decayRate * ticks) and scores   *)
(* are exact rationals.  Floating-point rounding is not modelled.           *)
(***************************************************************************)
EXTENDS Integers, Sequences, FiniteSets, TLC

\* ------------------------------------------------------------------ bounds
\* track calls in TrackSpec
MaxTracks == 9
\* track, addResource and optimize calls and clock ticks in Spec
MaxOps == 7
\* the same in QuickSpec
MaxQuickOps == 7
\* the same in LiveSpec
MaxLiveOps == 5
\* the same in ScoreSpec
MaxScoreOps == 6

\* ------------------------------------------------------- strings in use
Home == <<"/", "h", "o", "m", "e">>
Products == <<"/", "p", "r", "o", "d", "u", "c", "t", "s">>
About == <<"/", "a", "b", "o", "u", "t">>
EmptyString == <<>>
ApiProducts == <<"/", "a", "p", "i">> \o Products
HeroJpg == <<"/", "i", "m", "a", "g", "e", "s", "/", "h", "e", "r", "o", ".", "j", "p", "g">>

States == {Home, Products, About, EmptyString}
OptStates == {Home, Products, EmptyString}
Urls == {ApiProducts, HeroJpg}
EventTypes == {"pageview", "click"}

\* null: no State is the one-element sequence <<"null">>, whose element is
\* not a character.
Null == <<"null">>

VARIABLES
    maxPrefetch,    \* this.maxPrefetch
    decayRate,      \* this.decayRate
    transitions,    \* this.transitions: state -> insertion-ordered map next -> count
    resources,      \* this.resources: insertion-ordered map url -> metadata
    currentState,   \* this.currentState
    calls,          \* the optimize() calls made so far and their fetches
    now,            \* Date.now()
    options,        \* the options object given to the constructor
    ntracks,        \* history: the number of track calls
    lastTracked,    \* history: the state passed to the latest track call
    pairs,          \* history: pairs[<<a, b>>] counts the track(b) calls that
                    \* directly followed a track(a) call
    adds            \* history: the number of addResource calls

vars == <<maxPrefetch, decayRate, transitions, resources, currentState, calls,
          now, options, ntracks, lastTracked, pairs, adds>>

\* ----------------------------------------------------------- JS helpers
\* JavaScript truthiness of a value that is null or a string.
TruthyState(v) == v # Null /\ v # EmptyString

\* a || b for numbers: b when a is undefined or 0.
OrDefault(has, v, d) == IF has /\ v # 0 THEN v ELSE d

\* String.prototype.includes
Includes(url, state) ==
    \E i \in 0..(Len(url) - Len(state)) : SubSeq(url, i + 1, i + Len(state)) = state

SliceOneMore(seq, end) == SubSeq(seq, 1, IF end + 1 > Len(seq) THEN Len(seq) ELSE end + 1)

\* Array.prototype.slice(0, end)
Slice(seq, end) ==
    LET len == Len(seq)
        k == IF end < 0 THEN (IF len + end < 0 THEN 0 ELSE len + end)
             ELSE (IF end > len THEN len ELSE end)
    IN  SubSeq(seq, 1, k)

\* Map.prototype.has / get / set on an insertion-ordered map kept as a
\* sequence of entries [key, val]
MapHas(m, k) == \E i \in 1..Len(m) : m[i].key = k

MapGet(m, k) == m[CHOOSE i \in 1..Len(m) : m[i].key = k].val

MapSet(m, k, v) ==
    IF MapHas(m, k)
    THEN [i \in 1..Len(m) |-> IF m[i].key = k THEN [key |-> k, val |-> v] ELSE m[i]]
    ELSE Append(m, [key |-> k, val |-> v])

\* Array.prototype.sort((a, b) => b.x - a.x), a stable sort: given the keys
\* x of the elements as fractions num / den with den > 0, the indices of the
\* elements in sorted order.  The element at index i lands after every
\* element with a larger key and after the earlier elements with an equal key.
SortOrder(keys) ==
    LET n == Len(keys)
        \* cmp(keys[i], keys[j]) < 0
        Before(i, j) == keys[j].num * keys[i].den < keys[i].num * keys[j].den
        Rank(i) == Cardinality({j \in 1..n : Before(j, i)})
                   + Cardinality({j \in 1..(i - 1) : ~Before(j, i) /\ ~Before(i, j)})
                   + 1
    IN  [p \in 1..n |-> CHOOSE i \in 1..n : Rank(i) = p]

SumCountsFirst(m) == IF m = <<>> THEN 0 ELSE m[1].val

RECURSIVE SumCounts(_)
SumCounts(m) == IF m = <<>> THEN 0 ELSE m[1].val + SumCounts(Tail(m))

\* ------------------------------------------------------------ constructor
\* The options object: a field that is absent is undefined.
NoOptions ==
    [hasMaxPrefetch |-> FALSE, maxPrefetch |-> 0, hasDecayRate |-> FALSE, decayRate |-> 0]

\* The README quick start: { maxPrefetch: 2, decayRate: 0.05 }
QuickStartOptions ==
    [hasMaxPrefetch |-> TRUE, maxPrefetch |-> 2, hasDecayRate |-> TRUE, decayRate |-> 1]

OptionSets ==
    { NoOptions,
      [hasMaxPrefetch |-> TRUE, maxPrefetch |-> 1, hasDecayRate |-> TRUE, decayRate |-> 3],
      [hasMaxPrefetch |-> TRUE, maxPrefetch |-> 0, hasDecayRate |-> TRUE, decayRate |-> 0] }

DefaultMaxPrefetch == 3
DefaultDecayRate == 2

InitWith(O) ==
    /\ options \in O
    /\ maxPrefetch = OrDefault(options.hasMaxPrefetch, options.maxPrefetch, DefaultMaxPrefetch)
    /\ decayRate = OrDefault(options.hasDecayRate, options.decayRate, DefaultDecayRate)
    /\ transitions = <<>>
    /\ resources = <<>>
    /\ currentState = Null
    /\ calls = <<>>
    /\ now = 0
    /\ ntracks = 0
    /\ lastTracked = Null
    /\ pairs = [p \in States \X States |-> 0]
    /\ adds = 0

Init == InitWith(OptionSets)

\* The number of calls and clock ticks so far.
Ops == ntracks + adds + now + Len(calls)

\* ------------------------------------------------------------------ track
RecordsTransitionAlways(state) == TruthyState(currentState)

\* The condition of track under which a transition is counted.
RecordsTransition(state) == TruthyState(currentState) /\ currentState # state

NextTransitionsByType(eventType, state) ==
    IF RecordsTransition(state) /\ eventType = "pageview"
    THEN LET nextMap == IF MapHas(transitions, currentState)
                        THEN MapGet(transitions, currentState) ELSE <<>>
             count == IF MapHas(nextMap, state) THEN MapGet(nextMap, state) ELSE 0
         IN  MapSet(transitions, currentState, MapSet(nextMap, state, count + 1))
    ELSE transitions

NextTransitionsFresh(eventType, state) ==
    IF RecordsTransition(state)
    THEN MapSet(transitions, currentState, <<[key |-> state, val |-> 1]>>)
    ELSE transitions

\* this.transitions after track(eventType, state).
NextTransitions(eventType, state) ==
    IF RecordsTransition(state)
    THEN LET nextMap == IF MapHas(transitions, currentState)
                        THEN MapGet(transitions, currentState) ELSE <<>>
             count == IF MapHas(nextMap, state) THEN MapGet(nextMap, state) ELSE 0
         IN  MapSet(transitions, currentState, MapSet(nextMap, state, count + 1))
    ELSE transitions

TrackStep(eventType, state) ==
    /\ transitions' = NextTransitions(eventType, state)
    /\ currentState' = state
    /\ ntracks' = ntracks + 1
    /\ lastTracked' = state
    /\ pairs' = IF lastTracked = Null THEN pairs
               ELSE [pairs EXCEPT ![<<lastTracked, state>>] = @ + 1]
    /\ UNCHANGED <<maxPrefetch, decayRate, resources, calls, now, options, adds>>

\* A caller makes one track call, with a state of S.
TrackIn(S, bound) ==
    \E eventType \in EventTypes, state \in S :
        /\ Ops < bound
        /\ TrackStep(eventType, state)

Track == TrackIn(States, MaxTracks)

\* ------------------------------------------------------------ predictNext
PredictNextUnsorted ==
    IF ~TruthyState(currentState) \/ ~MapHas(transitions, currentState)
    THEN <<>>
    ELSE LET nextMap == MapGet(transitions, currentState)
             totalTransitions == SumCounts(nextMap)
         IN  [i \in 1..Len(nextMap) |->
                [state |-> nextMap[i].key, num |-> nextMap[i].val, den |-> totalTransitions]]

PredictNext ==
    IF ~TruthyState(currentState) \/ ~MapHas(transitions, currentState)
    THEN <<>>
    ELSE LET nextMap == MapGet(transitions, currentState)
             totalTransitions == SumCounts(nextMap)
             predictions == [i \in 1..Len(nextMap) |->
                               [state |-> nextMap[i].key,
                                num |-> nextMap[i].val, den |-> totalTransitions]]
             \* sort by probability descending
             order == SortOrder([i \in 1..Len(predictions) |->
                                  [num |-> predictions[i].num, den |-> predictions[i].den]])
         IN  [p \in 1..Len(predictions) |-> predictions[order[p]]]

\* ------------------------------------------------------------ addResource
\* The metadata argument: a field that is absent takes the default of the
\* destructuring pattern { size = 100, latency = 100 } = {}.
\* The README quick start: { size: 500, latency: 200 } and
\* { size: 1000, latency: 300 }
QuickStartMetas ==
    { [hasSize |-> TRUE, size |-> 500, hasLatency |-> TRUE, latency |-> 200],
      [hasSize |-> TRUE, size |-> 1000, hasLatency |-> TRUE, latency |-> 300] }

MetaSets ==
    { [hasSize |-> FALSE, size |-> 0, hasLatency |-> FALSE, latency |-> 0],
      [hasSize |-> TRUE, size |-> 500, hasLatency |-> TRUE, latency |-> 200] }

\* Metadata with a size of 0, so that size * latency is 0.
ScoreMetas ==
    MetaSets \cup { [hasSize |-> TRUE, size |-> 0, hasLatency |-> FALSE, latency |-> 0] }

DefaultSize == 100
DefaultLatency == 100

AddResourceIn(U, M, bound) ==
    \E url \in U, meta \in M :
        /\ Ops < bound
        /\ resources' = MapSet(resources, url,
                               [size |-> IF meta.hasSize THEN meta.size ELSE DefaultSize,
                                latency |-> IF meta.hasLatency THEN meta.latency
                                            ELSE DefaultLatency,
                                lastUsed |-> now])
        /\ adds' = adds + 1
        /\ UNCHANGED <<maxPrefetch, decayRate, transitions, currentState, calls, now,
                       options, ntracks, lastTracked, pairs>>

AddResource == AddResourceIn(Urls, MetaSets, MaxOps)

\* ---------------------------------------------------------- scoreResources
RECURSIVE Pow2(_)
Pow2(n) == IF n <= 0 THEN 1 ELSE 2 * Pow2(n - 1)

ScoreNoFloor(prediction, resource) ==
    [num |-> prediction.num,
     den |-> prediction.den * Pow2(decayRate * (now - resource.lastUsed))
             * (resource.size * resource.latency)]

\* The score of one (prediction, resource) match, as the fraction num / den:
\* (probability * decay) / (cost || 1) with decay = 2^-(decayRate * timeElapsed).
Score(prediction, resource) ==
    LET timeElapsed == now - resource.lastUsed
        cost == resource.size * resource.latency
    IN  [num |-> prediction.num,
         den |-> prediction.den * Pow2(decayRate * timeElapsed)
                 * (IF cost # 0 THEN cost ELSE 1)]

MatchesOfAny(prediction, res) ==
    [i \in 1..Len(res) |-> [url |-> res[i].key, score |-> Score(prediction, res[i].val)]]

\* The matches of one prediction, in the iteration order of this.resources.
RECURSIVE MatchesOf(_, _)
MatchesOf(prediction, res) ==
    IF res = <<>> THEN <<>>
    ELSE (IF Includes(res[1].key, prediction.state)
          THEN <<[url |-> res[1].key, score |-> Score(prediction, res[1].val)]>>
          ELSE <<>>)
         \o MatchesOf(prediction, Tail(res))

RECURSIVE AllMatchesDedup(_)
AllMatchesDedup(predictions) ==
    IF predictions = <<>> THEN <<>>
    ELSE LET rest == AllMatchesDedup(Tail(predictions))
             Fresh(e) == \A k \in 1..Len(rest) : rest[k].url # e.url
         IN  SelectSeq(MatchesOf(predictions[1], resources), Fresh) \o rest

RECURSIVE AllMatches(_)
AllMatches(predictions) ==
    IF predictions = <<>> THEN <<>>
    ELSE MatchesOf(predictions[1], resources) \o AllMatches(Tail(predictions))

ScoreResources(predictions) ==
    LET scores == AllMatches(predictions)
        \* sort by score descending
        order == SortOrder([i \in 1..Len(scores) |-> scores[i].score])
    IN  [p \in 1..Len(scores) |-> scores[order[p]]]

\* ---------------------------------------------------------------- prefetch
\* The promise chain of one dispatched fetch, as the state of the promise
\* handed to Promise.all: fetch(url).then(onFulfilled).catch(onRejected).
\* .then(onFulfilled): the callback does not throw, so the promise settles
\* as the fetch did.
ThenPromise(fetchState) == fetchState

CatchPromiseMissing(p) == p

CatchPromiseHangs(p) == IF p = "rejected" THEN "pending" ELSE p

\* .catch(onRejected): a rejection is handled and the promise is fulfilled.
CatchPromise(p) == IF p = "rejected" THEN "fulfilled" ELSE p

FetchPromise(fetchState) == CatchPromise(ThenPromise(fetchState))

\* Promise.all over the promises of one batch.
PromiseAll(fetches) ==
    IF \E i \in 1..Len(fetches) : FetchPromise(fetches[i].state) = "rejected"
    THEN "rejected"
    ELSE IF \A i \in 1..Len(fetches) : FetchPromise(fetches[i].state) = "fulfilled"
         THEN "fulfilled"
         ELSE "pending"

\* The dispatch part of prefetch(urls): one pending fetch per entry of
\* urls.slice(0, this.maxPrefetch).
PrefetchSequential(urls) ==
    LET toFetch == Slice(Slice(urls, maxPrefetch), 1)
    IN  [i \in 1..Len(toFetch) |-> [url |-> toFetch[i].url, state |-> "pending", at |-> 0]]

Prefetch(urls) ==
    LET toFetch == Slice(urls, maxPrefetch)
    IN  [i \in 1..Len(toFetch) |-> [url |-> toFetch[i].url, state |-> "pending", at |-> 0]]

\* ---------------------------------------------------------------- optimize
OptimizeInTouching(bound) ==
    /\ Ops < bound
    /\ LET predictions == PredictNext
           scoredResources == ScoreResources(predictions)
       IN  /\ calls' = Append(calls,
                 IF predictions = <<>>
                 THEN [path |-> "no-predictions", ranked |-> <<>>, fetches |-> <<>>,
                       outcome |-> "fulfilled"]
                 ELSE IF scoredResources = <<>>
                 THEN [path |-> "no-resources", ranked |-> <<>>, fetches |-> <<>>,
                       outcome |-> "fulfilled"]
                 ELSE [path |-> "prefetch", ranked |-> scoredResources,
                       fetches |-> Prefetch(scoredResources), outcome |-> "pending"])
           /\ resources' =
                 [r \in 1..Len(resources) |->
                    IF \E i \in 1..Len(scoredResources) :
                          scoredResources[i].url = resources[r].key
                    THEN [resources[r] EXCEPT !.val.lastUsed = now]
                    ELSE resources[r]]
    /\ UNCHANGED <<maxPrefetch, decayRate, transitions, currentState, now,
                   options, ntracks, lastTracked, pairs, adds>>

\* optimize() up to its first suspension: either it returns at once (the
\* promise of the async function is fulfilled) or it awaits prefetch().  The
\* call is recorded with the list handed to prefetch (ranked).
OptimizeIn(bound) ==
    /\ Ops < bound
    /\ LET predictions == PredictNext
           scoredResources == ScoreResources(predictions)
       IN  calls' = Append(calls,
             IF predictions = <<>>
             THEN [path |-> "no-predictions", ranked |-> <<>>, fetches |-> <<>>,
                   outcome |-> "fulfilled"]
             ELSE IF scoredResources = <<>>
             THEN [path |-> "no-resources", ranked |-> <<>>, fetches |-> <<>>,
                   outcome |-> "fulfilled"]
             ELSE [path |-> "prefetch", ranked |-> scoredResources,
                   fetches |-> Prefetch(scoredResources), outcome |-> "pending"])
    /\ UNCHANGED <<maxPrefetch, decayRate, transitions, resources, currentState, now,
                   options, ntracks, lastTracked, pairs, adds>>

Optimize == OptimizeIn(MaxOps)

OnFulfilledNoRefresh(url) == resources

\* The onFulfilled callback of a fetch: refresh lastUsed of the entry
\* registered under url, if there is one.
OnFulfilled(url) ==
    IF MapHas(resources, url)
    THEN MapSet(resources, url, [MapGet(resources, url) EXCEPT !.lastUsed = now])
    ELSE resources

OnRejectedRefresh(url) == OnFulfilled(url)

\* The onRejected callback of a fetch: it only logs a warning.
OnRejected(url) == resources

\* A dispatched fetch settles: the network reports success or failure.
FetchSettle(c, i, ok) ==
    /\ calls[c].fetches[i].state = "pending"
    /\ calls' = [calls EXCEPT ![c].fetches[i].state = IF ok THEN "fulfilled" ELSE "rejected",
                              ![c].fetches[i].at = now]
    /\ resources' = IF ok THEN OnFulfilled(calls[c].fetches[i].url)
                  ELSE OnRejected(calls[c].fetches[i].url)
    /\ UNCHANGED <<maxPrefetch, decayRate, transitions, currentState, now, options,
                   ntracks, lastTracked, pairs, adds>>

FetchSucceed ==
    \E c \in 1..Len(calls) : \E i \in 1..Len(calls[c].fetches) : FetchSettle(c, i, TRUE)

FetchFail ==
    \E c \in 1..Len(calls) : \E i \in 1..Len(calls[c].fetches) : FetchSettle(c, i, FALSE)

\* await Promise.all(promises) resumes: the promise returned by prefetch, and
\* with it the one returned by optimize, settles as Promise.all did.
OptimizeSettle ==
    \E c \in 1..Len(calls) :
        /\ calls[c].outcome = "pending"
        /\ PromiseAll(calls[c].fetches) # "pending"
        /\ calls' = [calls EXCEPT ![c].outcome = PromiseAll(calls[c].fetches)]
        /\ UNCHANGED <<maxPrefetch, decayRate, transitions, resources, currentState, now,
                       options, ntracks, lastTracked, pairs, adds>>

\* Time passes.
TickIn(bound) ==
    /\ Ops < bound
    /\ now' = now + 1
    /\ UNCHANGED <<maxPrefetch, decayRate, transitions, resources, currentState, calls,
                   options, ntracks, lastTracked, pairs, adds>>

Tick == TickIn(MaxOps)

TrackOpt == TrackIn(OptStates, MaxOps)

Next ==
    \/ TrackOpt
    \/ AddResource
    \/ Optimize
    \/ FetchSucceed
    \/ FetchFail
    \/ OptimizeSettle
    \/ Tick

Spec == Init /\ [][Next]_vars

\* The README quick start and its variations: the quick start's options,
\* states, resources and metadata, in any order.
TrackQuick == TrackIn({Home, Products}, MaxQuickOps)

AddResourceQuick == AddResourceIn(Urls, QuickStartMetas, MaxQuickOps)

OptimizeQuick == OptimizeIn(MaxQuickOps)

TickQuick == TickIn(MaxQuickOps)

QuickNext ==
    \/ TrackQuick
    \/ AddResourceQuick
    \/ OptimizeQuick
    \/ FetchSucceed
    \/ FetchFail
    \/ OptimizeSettle
    \/ TickQuick

QuickSpec == InitWith({QuickStartOptions}) /\ [][QuickNext]_vars

\* The prefetcher on an event loop that runs every continuation that is
\* ready, with a network that settles every fetch it was given.
TrackLive == TrackIn(OptStates, MaxLiveOps)

AddResourceLive == AddResourceIn(Urls, MetaSets, MaxLiveOps)

OptimizeLive == OptimizeIn(MaxLiveOps)

TickLive == TickIn(MaxLiveOps)

LiveNext ==
    \/ TrackLive
    \/ AddResourceLive
    \/ OptimizeLive
    \/ FetchSucceed
    \/ FetchFail
    \/ OptimizeSettle
    \/ TickLive

LiveSpec ==
    /\ Init
    /\ [][LiveNext]_vars
    /\ WF_vars(FetchSucceed \/ FetchFail)
    /\ WF_vars(OptimizeSettle)

\* Prediction and scoring: resources of any cost, zero included, are
\* registered and scored at any later time; no fetch is answered.
TrackScore == TrackIn(OptStates, MaxScoreOps)

AddResourceScore == AddResourceIn(Urls, ScoreMetas, MaxScoreOps)

OptimizeScore == OptimizeIn(MaxScoreOps)

TickScore == TickIn(MaxScoreOps)

ScoreNext ==
    \/ TrackScore
    \/ AddResourceScore
    \/ OptimizeScore
    \/ TickScore

ScoreSpec == Init /\ [][ScoreNext]_vars

\* The transition model alone, in a prefetcher constructed without options.
TrackNext == Track

TrackSpec == InitWith({NoOptions}) /\ [][TrackNext]_vars

\* ================================================================ claims
\* The stored count for (a -> b), 0 when there is no stored entry.
HasEntry(a, b) == MapHas(transitions, a) /\ MapHas(MapGet(transitions, a), b)

StoredCount(a, b) == IF HasEntry(a, b) THEN MapGet(MapGet(transitions, a), b) ELSE 0

Min(a, b) == IF a <= b THEN a ELSE b

\* The sum of the stored counts for (a -> b) over the states b of S.
RECURSIVE TotalFrom(_, _)
TotalFrom(a, S) ==
    IF S = {} THEN 0
    ELSE LET b == CHOOSE x \in S : TRUE IN StoredCount(a, b) + TotalFrom(a, S \ {b})

\* C1: after any sequence of track calls, for every pair of states a # b
\* (the empty string included) the stored count for (a -> b) is the number of
\* track(b) calls that directly followed a track(a) call, and a pair that
\* never occurred consecutively has no stored entry.
C1_CountsMatchHistory ==
    \A a, b \in States :
        a # b => /\ StoredCount(a, b) = pairs[<<a, b>>]
                 /\ (pairs[<<a, b>>] = 0 => ~HasEntry(a, b))

\* The maxPrefetch option is supplied and is K.
ConstructedWith(K) == options.hasMaxPrefetch /\ options.maxPrefetch = K

\* C2: constructed with maxPrefetch = K >= 1, a prefetch call given a ranked
\* list of length n dispatches exactly min(K, n) fetches, for the first
\* min(K, n) entries in rank order, and never more than K.
C2_DispatchesFirstK ==
    \A c \in 1..Len(calls) :
        (options.hasMaxPrefetch /\ options.maxPrefetch >= 1) =>
            LET K == options.maxPrefetch
                ranked == calls[c].ranked
                fetches == calls[c].fetches
            IN  /\ Len(fetches) = Min(K, Len(ranked))
                /\ Len(fetches) <= K
                /\ \A i \in 1..Len(fetches) : fetches[i].url = ranked[i].url

\* A call that ranked more candidates than maxPrefetch and dispatched
\* maxPrefetch of them.
C2_Witness ==
    \E c \in 1..Len(calls) :
        /\ options.hasMaxPrefetch /\ options.maxPrefetch >= 1
        /\ Len(calls[c].ranked) > options.maxPrefetch
        /\ Len(calls[c].fetches) = options.maxPrefetch

\* C3: constructed with maxPrefetch = 0, prefetch (and so optimize)
\* dispatches no fetch at all, whatever the ranked candidates are.
C3_ZeroDispatchesNothing ==
    ConstructedWith(0) => \A c \in 1..Len(calls) : calls[c].fetches = <<>>

\* C4: in every step in which a dispatched fetch succeeds, whatever the other
\* fetches of its batch did or will do, the lastUsed of the candidate's
\* entry is refreshed to the current time.
C4_SuccessRefreshes ==
    [][\A c \in 1..Len(calls) : \A i \in 1..Len(calls[c].fetches) :
          (/\ Len(calls') = Len(calls)
           /\ calls[c].fetches[i].state = "pending"
           /\ calls'[c].fetches[i].state = "fulfilled")
          => /\ MapHas(resources', calls[c].fetches[i].url)
             /\ MapGet(resources', calls[c].fetches[i].url).lastUsed = now]_vars

\* A batch in which one fetch failed and a sibling succeeded later, the
\* entry of the successful one carrying the time of its success.
C4_Witness ==
    \E c \in 1..Len(calls) : \E i, j \in 1..Len(calls[c].fetches) :
        /\ calls[c].fetches[i].state = "rejected"
        /\ calls[c].fetches[j].state = "fulfilled"
        /\ calls[c].fetches[i].at < calls[c].fetches[j].at
        /\ MapGet(resources, calls[c].fetches[j].url).lastUsed = calls[c].fetches[j].at

AllSettled(c) == \A i \in 1..Len(calls[c].fetches) : calls[c].fetches[i].state # "pending"

\* C5: the outcome of an optimize call is never fulfilled while one of its
\* fetches is pending and is never rejected; once all its fetches have
\* settled the only way it settles is fulfilment, even if all of them failed.
C5_ResolvesAfterAllSettle ==
    [][\A c \in 1..Len(calls') :
          /\ calls'[c].outcome # "rejected"
          /\ calls'[c].outcome = "fulfilled" =>
                \A i \in 1..Len(calls'[c].fetches) : calls'[c].fetches[i].state # "pending"
          /\ (c <= Len(calls) /\ calls[c].outcome = "pending" /\ AllSettled(c)
              /\ calls'[c] # calls[c])
             => calls'[c].outcome = "fulfilled"]_vars

\* A call whose fetches all failed and whose outcome is fulfilled.
C5_Witness ==
    \E c \in 1..Len(calls) :
        /\ Len(calls[c].fetches) >= 2
        /\ \A i \in 1..Len(calls[c].fetches) : calls[c].fetches[i].state = "rejected"
        /\ calls[c].outcome = "fulfilled"

\* The destinations recorded for CurrentState.
Destinations == {b \in States : currentState # Null /\ currentState \in States
                                  /\ StoredCount(currentState, b) > 0}

\* No registered resource matches any prediction.
NothingMatches ==
    \A b \in Destinations : \A r \in 1..Len(resources) : ~Includes(resources[r].key, b)

\* C6: an optimize call made when CurrentState is undefined, or has no
\* recorded outgoing transition, or no registered resource matches any
\* prediction, dispatches no fetch, returns normally and leaves the
\* transition table, CurrentState and every resource entry unchanged.
C6_NothingToDoIsHarmless ==
    [][(/\ Len(calls') = Len(calls) + 1
        /\ (currentState = Null \/ Destinations = {} \/ NothingMatches))
       => /\ calls'[Len(calls')].fetches = <<>>
          /\ calls'[Len(calls')].outcome = "fulfilled"
          /\ transitions' = transitions
          /\ currentState' = currentState
          /\ resources' = resources]_vars

\* An optimize call that found predictions and registered resources, none
\* of them matching.
C6_Witness ==
    \E c \in 1..Len(calls) :
        /\ calls[c].path = "no-resources"
        /\ resources # <<>>
        /\ Destinations # {}

\* C7: when CurrentState has recorded outgoing transitions with total T,
\* predictNext returns exactly one prediction per recorded destination, with
\* probability count / T, each in [0, 1], the numerators summing to T; it
\* returns the empty sequence exactly when CurrentState is undefined or has
\* no recorded outgoing transition.
C7_ProbabilitiesAreCountOverTotal ==
    LET predictions == PredictNext
        T == TotalFrom(currentState, States)
    IN  /\ predictions = <<>> <=> (currentState = Null \/ Destinations = {})
        /\ Len(predictions) = Cardinality(Destinations)
        /\ {predictions[i].state : i \in 1..Len(predictions)} = Destinations
        /\ \A i \in 1..Len(predictions) :
              /\ predictions[i].num = StoredCount(currentState, predictions[i].state)
              /\ predictions[i].den = T
              /\ 0 <= predictions[i].num /\ predictions[i].num <= predictions[i].den

\* CurrentState has three recorded destinations with different counts.
C7_Witness ==
    /\ Cardinality(Destinations) = 3
    /\ \E a, b \in Destinations : StoredCount(currentState, a) > StoredCount(currentState, b)

\* The README's example history: /home -> /products three times and
\* /home -> /about once, nowhere else from /home, CurrentState = /home.
ThreeToOne ==
    /\ lastTracked = Home
    /\ pairs[<<Home, Products>>] = 3
    /\ pairs[<<Home, About>>] = 1
    /\ pairs[<<Home, EmptyString>>] = 0

\* C8: predictNext returns its predictions in non-increasing order of
\* probability, and after /home -> /products three times and /home -> /about
\* once with CurrentState = /home it returns /products with 3/4 and then
\* /about with 1/4.
C8_SortedByProbability ==
    LET predictions == PredictNext
    IN  /\ \A i, j \in 1..Len(predictions) :
              i < j => predictions[i].num * predictions[j].den
                       >= predictions[j].num * predictions[i].den
        /\ ThreeToOne =>
              predictions = << [state |-> Products, num |-> 3, den |-> 4],
                               [state |-> About, num |-> 1, den |-> 4] >>

\* The example history with /about visited first, so that the table lists
\* /about before /products.
C8_Witness ==
    /\ ThreeToOne
    /\ MapGet(transitions, Home)[1].key = About

\* C9: the transition table never holds a self-loop edge, and a track call
\* with the state of the previous track call changes no count and leaves
\* CurrentState equal to that state.
C9_NoSelfLoop ==
    [][/\ \A s \in States : ~HasEntry(s, s)'
       /\ (ntracks' = ntracks + 1 /\ lastTracked' = lastTracked)
          => (transitions' = transitions /\ currentState' = lastTracked)]_vars

\* A state was tracked twice in a row after transitions were recorded.
C9_Witness ==
    /\ \E s \in States \ {EmptyString} : pairs[<<s, s>>] > 0
    /\ transitions # <<>>

\* The README quick start: maxPrefetch 2, track /home, /products, /home,
\* /products, then register /api/products (500, 200) and /images/hero.jpg
\* (1000, 300).
QuickStart ==
    /\ ConstructedWith(2)
    /\ ntracks = 4 /\ lastTracked = Products
    /\ pairs[<<Home, Products>>] = 2 /\ pairs[<<Products, Home>>] = 1
    /\ Len(resources) = 2
    /\ resources[1].key = ApiProducts
    /\ resources[1].val.size = 500 /\ resources[1].val.latency = 200
    /\ resources[2].key = HeroJpg
    /\ resources[2].val.size = 1000 /\ resources[2].val.latency = 300

\* C10: an optimize call made at the end of the README quick start
\* dispatches a prefetch for /api/products.
C10_QuickStartPrefetches ==
    [][(QuickStart /\ Len(calls') = Len(calls) + 1)
       => \E i \in 1..Len(calls'[Len(calls')].fetches) :
             calls'[Len(calls')].fetches[i].url = ApiProducts]_vars

\* The fetches in flight: dispatched and not yet settled, over all calls.
RECURSIVE InFlightFrom(_)
InFlightFrom(c) ==
    IF c > Len(calls) THEN 0
    ELSE Cardinality({i \in 1..Len(calls[c].fetches) : calls[c].fetches[i].state = "pending"})
         + InFlightFrom(c + 1)

InFlight == InFlightFrom(1)

\* C11: at every moment the number of fetches in flight is at most
\* maxPrefetch, also when optimize is called again before an earlier call
\* has settled.
C11_InFlightAtMostMaxPrefetch == InFlight <= maxPrefetch

\* The entry registered under url, <<>> when there is none.
EntryOf(res, url) == IF MapHas(res, url) THEN <<MapGet(res, url)>> ELSE <<>>

\* In this step a fetch of url goes from pending to the given state.
Settles(url, state) ==
    /\ Len(calls') = Len(calls)
    /\ \E c \in 1..Len(calls) : \E i \in 1..Len(calls[c].fetches) :
          /\ calls[c].fetches[i].url = url
          /\ calls[c].fetches[i].state = "pending"
          /\ calls'[c].fetches[i].state = state

\* C12: a step in which a fetch fails leaves every resource entry as it was,
\* and the entry of a url changes only in an addResource call, which changes
\* no other entry, or in the success of a fetch of that url, which changes
\* neither size nor latency.
C12_FailureLeavesEntry ==
    [][/\ (\E u \in Urls : Settles(u, "rejected")) => resources' = resources
       /\ \A u \in Urls :
             EntryOf(resources', u) # EntryOf(resources, u) =>
                \/ /\ adds' = adds + 1
                   /\ \A v \in Urls \ {u} : EntryOf(resources', v) = EntryOf(resources, v)
                \/ /\ Settles(u, "fulfilled")
                   /\ MapHas(resources, u)
                   /\ MapGet(resources', u).size = MapGet(resources, u).size
                   /\ MapGet(resources', u).latency = MapGet(resources, u).latency]_vars

\* A fetch failed later than the last use recorded for its entry.
C12_Witness ==
    \E c \in 1..Len(calls) : \E i \in 1..Len(calls[c].fetches) :
        /\ calls[c].fetches[i].state = "rejected"
        /\ MapGet(resources, calls[c].fetches[i].url).lastUsed < calls[c].fetches[i].at

\* C13: the eventType argument of track has no effect: whatever eventType a
\* track call was made with, the table after it is the one any other
\* eventType would have produced from the same table with the same state,
\* and CurrentState is that state; so runs that track the same states end
\* with the same table and CurrentState.
C13_EventTypeIgnored ==
    [][ntracks' = ntracks + 1 =>
          /\ \A eventType \in EventTypes :
                transitions' = NextTransitions(eventType, lastTracked')
          /\ currentState' = lastTracked']_vars

\* Transitions with a count above one have been recorded, by track calls of
\* either eventType.
C13_Witness ==
    /\ ntracks >= 4
    /\ \E a, b \in States : StoredCount(a, b) >= 2

\* C14: predictNext and scoreResources are read-only: the step in which
\* optimize runs them changes neither the transition table nor CurrentState
\* nor any resource entry, and CurrentState changes in track calls only.
C14_PredictAndScoreReadOnly ==
    [][/\ Len(calls') = Len(calls) + 1 =>
             /\ transitions' = transitions
             /\ currentState' = currentState
             /\ resources' = resources
       /\ currentState' # currentState => ntracks' = ntracks + 1]_vars

\* An optimize call has scored two candidates some time after they were
\* registered, and nothing has settled since.
C14_Witness ==
    \E c \in 1..Len(calls) :
        /\ Len(calls[c].ranked) >= 2
        /\ \A i \in 1..Len(calls[c].fetches) : calls[c].fetches[i].state = "pending"
        /\ \E r \in 1..Len(resources) : resources[r].val.lastUsed < now

\* C15: if every dispatched fetch eventually settles, every optimize call
\* eventually completes, and a call that dispatches no fetch is complete as
\* soon as it has been made.
C15_OptimizeCompletes ==
    /\ \A c \in 1..MaxLiveOps :
          (Len(calls) >= c /\ calls[c].outcome = "pending")
             ~> (Len(calls) >= c /\ calls[c].outcome # "pending")
    /\ [](\A c \in 1..Len(calls) :
             calls[c].fetches = <<>> => calls[c].outcome = "fulfilled")

\* A call has completed after a fetch of its own failed.
C15_Witness ==
    \E c \in 1..Len(calls) :
        /\ calls[c].outcome = "fulfilled"
        /\ Len(calls[c].fetches) = 1
        /\ calls[c].fetches[1].state = "rejected"

\* size * latency of the entry registered under url, and the divisor
\* made of it.
CostOf(url) == MapGet(resources, url).size * MapGet(resources, url).latency

FlooredCostOf(url) == IF CostOf(url) = 0 THEN 1 ELSE CostOf(url)

ElapsedOf(url) == now - MapGet(resources, url).lastUsed

\* C16: with every registered size and latency >= 0, every score that
\* scoreResources produces is non-negative and finite (a fraction with a
\* numerator >= 0 and a denominator > 0), and where size * latency is 0 the
\* divisor is 1: the score is probability * decay.
C16_ScoresFiniteNonNegative ==
    LET scores == ScoreResources(PredictNext)
        T == TotalFrom(currentState, States)
    IN  \A i \in 1..Len(scores) :
           /\ scores[i].score.num >= 0
           /\ scores[i].score.den > 0
           /\ CostOf(scores[i].url) = 0 =>
                 scores[i].score.den = T * Pow2(decayRate * ElapsedOf(scores[i].url))

\* An optimize call has scored a resource whose size * latency is 0.
C16_Witness ==
    \E c \in 1..Len(calls) : \E i \in 1..Len(calls[c].ranked) :
        /\ MapHas(resources, calls[c].ranked[i].url)
        /\ CostOf(calls[c].ranked[i].url) = 0
        /\ calls[c].ranked[i].score.den > 0

\* state occurs in url at some offset, character by character.
Occurs(state, url) ==
    \E off \in 0..Len(url) :
        \A j \in 1..Len(state) : off + j <= Len(url) /\ url[off + j] = state[j]

\* C17: scoreResources returns one entry per pair (prediction, registered
\* resource) whose state occurs in the key, without deduplication: under
\* every url, each score appears as many times as there are predictions
\* matching the url with that score, and a url that is not registered, or
\* that no prediction matches, has no entry.
C17_OneEntryPerMatch ==
    LET preds == PredictNext
        scores == ScoreResources(preds)
        Matching(url) ==
            IF MapHas(resources, url)
            THEN {p \in 1..Len(preds) : Occurs(preds[p].state, url)}
            ELSE {}
        Entries(url) == {i \in 1..Len(scores) : scores[i].url = url}
    IN  /\ \A i \in 1..Len(scores) : scores[i].url \in Urls
        /\ \A url \in Urls :
              /\ Cardinality(Entries(url)) = Cardinality(Matching(url))
              /\ \A p \in Matching(url) :
                    LET sc == Score(preds[p], MapGet(resources, url))
                    IN  Cardinality({i \in Entries(url) : scores[i].score = sc})
                          = Cardinality({q \in Matching(url) :
                                Score(preds[q], MapGet(resources, url)) = sc})

\* One batch has dispatched the same url twice: two predictions of the call
\* matched one resource.
C17_Witness ==
    \E c \in 1..Len(calls) : \E i, j \in 1..Len(calls[c].fetches) :
        /\ i # j
        /\ calls[c].fetches[i].url = calls[c].fetches[j].url
        /\ Len(calls[c].ranked) >= 2

\* The decay coefficient the claim expects: the supplied decayRate, and the
\* default only when the option is omitted.
SuppliedDecayRate == IF options.hasDecayRate THEN options.decayRate ELSE DefaultDecayRate

\* C18: scoreResources decays with the decayRate supplied at construction
\* (the default only when it is omitted): every score is
\* probability / (2^(rate * elapsed) * cost), so with decayRate = 0 it is
\* probability / cost whatever the time elapsed since lastUsed.
C18_SuppliedDecayRateUsed ==
    LET scores == ScoreResources(PredictNext)
        T == TotalFrom(currentState, States)
    IN  \A i \in 1..Len(scores) :
           scores[i].score.den =
               T * Pow2(SuppliedDecayRate * ElapsedOf(scores[i].url))
                 * FlooredCostOf(scores[i].url)

\* C19: the transition table only grows: in every step (track, addResource,
\* optimize with its predictNext and scoreResources, fetch completion, the
\* passing of time) every stored entry stays stored, no stored count
\* decreases, and every stored count is >= 1.
C19_TableOnlyGrows ==
    /\ [](\A i \in 1..Len(transitions) : \A j \in 1..Len(transitions[i].val) :
             transitions[i].val[j].val >= 1)
    /\ [][transitions' # transitions =>
             \A a, b \in States :
                 HasEntry(a, b) => /\ HasEntry(a, b)'
                                   /\ StoredCount(a, b)' >= StoredCount(a, b)]_vars

\* A count has grown to 2 beside another stored entry, and a fetch of an
\* optimize call has completed since.
C19_Witness ==
    /\ StoredCount(Home, Products) >= 2
    /\ HasEntry(Products, Home)
    /\ \E c \in 1..Len(calls) : \E i \in 1..Len(calls[c].fetches) :
          calls[c].fetches[i].state # "pending"

\* The urls of a list of fetches or of scored candidates, in order.
UrlsOf(seq) == [i \in 1..Len(seq) |-> seq[i].url]

\* C20: the fetches of an optimize call are fixed at the call: the step
\* that makes the call dispatches, all pending, the first maxPrefetch
\* candidates computed from CurrentState, the transition table and the
\* registry as they are at that moment, and no later step (track,
\* addResource, another optimize, a completion) adds, removes or changes
\* the url of a fetch of an existing call.
C20_FetchSetFixedAtCall ==
    [][calls' # calls =>
          /\ Len(calls') >= Len(calls)
          /\ \A c \in 1..Len(calls) :
                UrlsOf(calls'[c].fetches) = UrlsOf(calls[c].fetches)
          /\ Len(calls') = Len(calls) + 1 =>
                LET new == calls'[Len(calls')]
                    scoredResources == ScoreResources(PredictNext)
                    k == Min(maxPrefetch, Len(scoredResources))
                IN  /\ UrlsOf(new.fetches) = [i \in 1..k |-> scoredResources[i].url]
                    /\ \A i \in 1..Len(new.fetches) : new.fetches[i].state = "pending"]_vars

\* A call is in flight and, after a later track or addResource, the
\* candidates are no longer the ones it is fetching; beside it a fetch of a
\* call has completed.
C20_Witness ==
    /\ \E c \in 1..Len(calls) :
          /\ \E i \in 1..Len(calls[c].fetches) : calls[c].fetches[i].state = "pending"
          /\ UrlsOf(calls[c].fetches)
               # UrlsOf(Slice(ScoreResources(PredictNext), maxPrefetch))
    /\ \E c \in 1..Len(calls) : \E i \in 1..Len(calls[c].fetches) :
          calls[c].fetches[i].state # "pending"

====
